---- MODULE Spec2Model ----
(***************************************************************************)
(* A model of the Lambda entry points of rds-lambda-cdk-typescript:        *)
(*   - the three request handlers of lambda/handler.ts (MySQL with a       *)
(*     module-level secrets client, PostgreSQL, MySQL validating the       *)
(*     environment first);                                                 *)
(*   - the schema initializers (lib/db-init/index.ts for PostgreSQL, and   *)
(*     the MySQL class-based and minimal variants).                        *)
(* One invocation runs at a time.  An action is the code that runs between *)
(* two await points: it consumes the outcome of the call the previous      *)
(* action issued and runs up to (and including) the issue of the next.     *)
(* The secret store, the database driver and the database are the          *)
(* environment: each awaited call resolves or rejects nondeterministically.*)
(* Every value the collaborators throw is an Error instance (name and      *)
(* message).                                                               *)
(***************************************************************************)
EXTENDS Integers, Sequences, FiniteSets, TLC

VARIABLES
  kind,         \* which exported handler the running invocation executes
  pc,           \* position of the invocation: the await it is suspended at
  env,          \* process.env
  event,        \* the event the handler was invoked with
  context,      \* the Lambda context object (only callbackWaitsForEmptyEventLoop)
  queryParams,  \* local queryParams of the MySQL request handlers
  connection,   \* local `connection`: "undefined", "open", "ended"
  pool,         \* the pg Pool of this invocation: "none", "open", "ended"
  client,       \* local `client` of initializeDatabase: "null", "leased", "released"
  stmt,         \* number of statements of the initializer resolved successfully
  connectArgs,  \* the options createConnection / new Pool was called with
  executeArgs,  \* the values bound to the request handlers' SELECT
  calls,        \* external calls issued by this invocation, in order
  results,      \* how each finished call ended (NoError, or the error), aligned with calls
  completion,   \* pending completion of the try/catch while a finally block runs
  outcome,      \* "none" while running, then "returned" or "threw"
  response,     \* the value the handler's promise resolved with
  schema,       \* schema objects of the PostgreSQL database (persists)
  priorSuccess, \* a finished run of the PostgreSQL initializer returned SUCCESS
  rows,         \* local `rows` of the MySQL request handlers: what the SELECT returned
  secretResponse, \* local `secretResponse`: what getSecretValue answered
  conc          \* two invocations of one MySQL request handler in one process (SpecConcurrent)

vars == <<kind, pc, env, event, context, queryParams, connection, pool, client,
          stmt, connectArgs, executeArgs, calls, results, completion, outcome,
          response, schema, priorSuccess, rows, secretResponse, conc>>

(***************************************************************************)
(* Bounds of the model.                                                    *)
(***************************************************************************)
\* number of distinct values each of RequestId / StackId / LogicalResourceId takes
NumIds == 2

(***************************************************************************)
(* JavaScript values.  A string is a sequence of tokens (single characters *)
(* for numeric strings, whole fixed phrases for messages); string          *)
(* concatenation is \o.  An optional string is a record.                   *)
(***************************************************************************)
Undefined == [def |-> FALSE, s |-> <<>>]
Str(s) == [def |-> TRUE, s |-> s]
\* !v for v : string | undefined | null
Falsy(v) == ~v.def \/ v.s = <<>>
\* v || d
OrDefault(v, d) == IF Falsy(v) THEN d ELSE v.s
\* s.includes(tok)
Includes(s, tok) == \E i \in 1..Len(s) : s[i] = tok

NaN == [nan |-> TRUE, val |-> 0]
Num(n) == [nan |-> FALSE, val |-> n]
MathMin(a, b) == IF a.nan \/ b.nan THEN NaN ELSE Num(IF a.val < b.val THEN a.val ELSE b.val)
MathMax(a, b) == IF a.nan \/ b.nan THEN NaN ELSE Num(IF a.val > b.val THEN a.val ELSE b.val)

Digits == <<"0", "1", "2", "3", "4", "5", "6", "7", "8", "9">>
IsDigit(c) == \E d \in 1..10 : Digits[d] = c
DigitVal(c) == (CHOOSE d \in 1..10 : Digits[d] = c) - 1

RECURSIVE DigitPrefix(_, _, _)
\* value of the longest run of digits of s starting at i, given the value acc so far
DigitPrefix(s, i, acc) ==
  IF i > Len(s) \/ ~IsDigit(s[i]) THEN acc
  ELSE DigitPrefix(s, i + 1, acc * 10 + DigitVal(s[i]))

RECURSIVE SkipSpace(_, _)
SkipSpace(s, i) == IF i <= Len(s) /\ s[i] = " " THEN SkipSpace(s, i + 1) ELSE i

\* parseInt(s): leading whitespace, an optional sign, then the longest digit
\* prefix; NaN when there is no digit
ParseInt(s) ==
  LET i == SkipSpace(s, 1)
      neg == i <= Len(s) /\ s[i] = "-"
      j == IF i <= Len(s) /\ s[i] \in {"-", "+"} THEN i + 1 ELSE i
  IN IF j > Len(s) \/ ~IsDigit(s[j]) THEN NaN
     ELSE Num((IF neg THEN -1 ELSE 1) * DigitPrefix(s, j, 0))

Err(name, message) == [name |-> name, message |-> message]
NoError == [name |-> "", message |-> <<>>]

Return(r) == [type |-> "return", value |-> r]
Throw(e) == [type |-> "throw", value |-> e]
NoCompletion == [type |-> "none", value |-> <<>>]
NoResponse == [none |-> TRUE]

(***************************************************************************)
(* The environment: what the collaborators may answer.                     *)
(***************************************************************************)
\* errors the secret store, the driver or the database may reject with
Failures ==
  { Err("Error", <<"connect ", "ECONNREFUSED", " 10.0.0.5:3306">>),
    Err("Error", <<"Connection terminated unexpectedly">>),
    Err("Error", <<"Database connection failed">>),
    Err("AccessDeniedException", <<"Database credentials not found">>) }

\* answers of getSecretValue: a rejection, a response without SecretString,
\* a SecretString that is not JSON, or a JSON object whose username / password
\* may be missing or empty (<<>>)
SecretOutcomes ==
  [t : {"throw"}, error : Failures, username : {<<>>}, password : {<<>>}]
    \cup [t : {"nostring", "badjson"}, error : {NoError}, username : {<<>>}, password : {<<>>}]
    \cup [t : {"creds"}, error : {NoError},
          username : {<<>>, <<"admin">>}, password : {<<>>, <<"s3cret">>}]

\* with SecretId undefined the SDK rejects the request
SecretOutcomesFor(arn) ==
  IF arn.def THEN SecretOutcomes ELSE {o \in SecretOutcomes : o.t = "throw"}

\* an awaited driver call resolves (NoError) or rejects
CallOutcomes == {NoError} \cup Failures

Rows == {<<>>, <<"alice", "bob">>}

Hosts == {Undefined, Str(<<>>), Str(<<"db.internal">>)}
Ports == {Undefined, Str(<<"3", "3", "0", "6">>), Str(<<"0">>), Str(<<"7", "0", "0", "0", "0">>),
          Str(<<"-", "1">>), Str(<<"a", "b", "c">>)}
RequestPorts == {Undefined, Str(<<"3", "3", "0", "6">>), Str(<<"0">>)}
Arns == {Undefined, Str(<<"arn:secret">>)}
Names == {Undefined, Str(<<"appdb">>)}

QueryValues == {Undefined, Str(<<>>), Str(<<"5">>), Str(<<"1", "0", "0">>),
                Str(<<"1", "0", "1">>), Str(<<"1", "0", "0", "0">>), Str(<<"-", "5">>),
                Str(<<"x">>)}
NullQuery == [isNull |-> TRUE, limit |-> Undefined, offset |-> Undefined]
QueryStrings ==
  {NullQuery} \cup [isNull : {FALSE}, limit : QueryValues, offset : QueryValues]

Methods == {"GET", "POST", "PUT"}
\* event.body: null, '', '{"test":"data"}', or text that is not JSON
Bodies == {Undefined, Str(<<>>), Str(<<"{\"test\":\"data\"}">>), Str(<<"{oops">>)}

RequestTypes == {"Create", "Update", "Delete"}
Ids == 1..NumIds

RequestKinds == {"mysql", "pg", "mysqlEnvFirst"}
InitKinds == {"dbInitPg", "dbInitMysql", "dbInitMinimal"}

NoQueryParams == [limit |-> <<>>, offset |-> <<>>]
\* getSecretValue has not answered
NoSecretResponse == [t |-> "none", error |-> NoError, username |-> <<>>, password |-> <<>>]
\* no concurrent invocations are running
NoConc == [inv |-> <<>>, connection |-> <<>>, conns |-> <<>>]
NoConnectArgs == [host |-> Undefined, port |-> NaN, user |-> <<>>, password |-> <<>>,
                  database |-> <<>>]
NoExecuteArgs == [limit |-> NaN, offset |-> NaN]

BlankEvent ==
  [httpMethod |-> "GET", body |-> Undefined, queryStringParameters |-> NullQuery,
   RequestType |-> "Create", RequestId |-> 0, StackId |-> 0, LogicalResourceId |-> 0]

(***************************************************************************)
(* Invocation.                                                             *)
(***************************************************************************)
Init ==
  /\ kind = "none"
  /\ pc = "idle"
  /\ env = [DB_HOST |-> Undefined, DB_PORT |-> Undefined, DB_SECRET_ARN |-> Undefined,
            DB_NAME |-> Undefined]
  /\ event = BlankEvent
  /\ context = [callbackWaitsForEmptyEventLoop |-> TRUE]
  /\ queryParams = NoQueryParams
  /\ connection = "undefined"
  /\ pool = "none"
  /\ client = "null"
  /\ stmt = 0
  /\ connectArgs = NoConnectArgs
  /\ executeArgs = NoExecuteArgs
  /\ calls = <<>>
  /\ results = <<>>
  /\ completion = NoCompletion
  /\ outcome = "none"
  /\ response = NoResponse
  /\ schema = {}
  /\ priorSuccess = FALSE
  /\ rows = <<>>
  /\ secretResponse = NoSecretResponse
  /\ conc = NoConc

\* The runtime has taken the handler's result: the invocation is over and its
\* event, environment and locals are gone.  Only the database keeps its state.
Finish ==
  /\ pc = "done"
  /\ pc' = "idle"
  /\ kind' = "none"
  /\ env' = [DB_HOST |-> Undefined, DB_PORT |-> Undefined, DB_SECRET_ARN |-> Undefined,
             DB_NAME |-> Undefined]
  /\ event' = BlankEvent
  /\ context' = [callbackWaitsForEmptyEventLoop |-> TRUE]
  /\ queryParams' = NoQueryParams
  /\ connection' = "undefined"
  /\ pool' = "none"
  /\ client' = "null"
  /\ stmt' = 0
  /\ connectArgs' = NoConnectArgs
  /\ executeArgs' = NoExecuteArgs
  /\ calls' = <<>>
  /\ results' = <<>>
  /\ completion' = NoCompletion
  /\ outcome' = "none"
  /\ response' = NoResponse
  /\ priorSuccess' = (priorSuccess \/ (kind = "dbInitPg" /\ outcome = "returned"
                                          /\ response.Status = "SUCCESS"))
  /\ rows' = <<>>
  /\ secretResponse' = NoSecretResponse
  /\ UNCHANGED <<schema, conc>>

\* The runtime invokes a request handler with an API Gateway event.
InvokeRequest ==
  /\ pc = "idle"
  /\ \E k \in RequestKinds, h \in Hosts, p \in RequestPorts, a \in Arns :
       /\ kind' = k
       /\ env' = [DB_HOST |-> h, DB_PORT |-> p, DB_SECRET_ARN |-> a, DB_NAME |-> Undefined]
       /\ IF k = "pg"
          THEN \E m \in Methods, b \in Bodies :
                 event' = [BlankEvent EXCEPT !.httpMethod = m, !.body = b]
          ELSE \E q \in QueryStrings :
                 event' = [BlankEvent EXCEPT !.queryStringParameters = q]
  /\ pc' = "start"
  /\ UNCHANGED <<context, queryParams, connection, pool, client, stmt, connectArgs,
                 executeArgs, calls, results, completion, outcome, response, schema,
                 priorSuccess, rows, secretResponse, conc>>

\* CloudFormation invokes an initializer with a custom-resource lifecycle event.
InvokeInit ==
  /\ pc = "idle"
  /\ \E k \in InitKinds, h \in Hosts, p \in Ports, a \in Arns, n \in Names,
        t \in RequestTypes, r \in Ids, s \in Ids, l \in Ids :
       \* the minimal initializer reads neither DB_NAME nor validates DB_PORT
       /\ k = "dbInitMinimal" => (n = Undefined /\ p \in RequestPorts)
       /\ kind' = k
       /\ env' = [DB_HOST |-> h, DB_PORT |-> p, DB_SECRET_ARN |-> a, DB_NAME |-> n]
       /\ event' = [BlankEvent EXCEPT !.RequestType = t, !.RequestId = r,
                                      !.StackId = s, !.LogicalResourceId = l]
  /\ pc' = "start"
  /\ UNCHANGED <<context, queryParams, connection, pool, client, stmt, connectArgs,
                 executeArgs, calls, results, completion, outcome, response, schema,
                 priorSuccess, rows, secretResponse, conc>>

\* the handler's promise settles: resolved with r, or rejected
Deliver(c) ==
  /\ pc' = "done"
  /\ completion' = NoCompletion
  /\ outcome' = IF c.type = "return" THEN "returned" ELSE "threw"
  /\ response' = IF c.type = "return" THEN c.value ELSE NoResponse


(***************************************************************************)
(* Pieces shared by the request handlers.                                  *)
(***************************************************************************)
\* What the code after `await getSecretValue(...)` throws before it has the
\* parsed secret: the store's rejection, Error(notFound) for a missing or
\* empty SecretString, JSON.parse's SyntaxError; NoError when it parsed.
SecretStepError(o, notFound) ==
  CASE o.t = "throw" -> o.error
    [] o.t = "nostring" -> Err("Error", notFound)
    [] o.t = "badjson" -> Err("SyntaxError", <<"Unexpected token in JSON">>)
    [] OTHER -> NoError

\* the options object passed to createConnection by the request handlers
MysqlConnectOptions(o) ==
  [host |-> env.DB_HOST, port |-> ParseInt(OrDefault(env.DB_PORT, <<"3", "3", "0", "6">>)),
   user |-> o.username, password |-> o.password, database |-> <<"mydb">>]

\* A faulty normalization: the parsed values are bound as they are.
NormalizePaginationUnclamped(q) ==
  [limit |-> ParseInt(q.limit), offset |-> ParseInt(q.offset)]

\* const limit = Math.min(parseInt(queryParams.limit), 100);
\* const offset = Math.max(parseInt(queryParams.offset), 0);
NormalizePagination(q) ==
  [limit |-> MathMin(ParseInt(q.limit), Num(100)),
   offset |-> MathMax(ParseInt(q.offset), Num(0))]

\* offset + limit
Plus(a, b) == IF a.nan \/ b.nan THEN NaN ELSE Num(a.val + b.val)

\* JSON.stringify writes a number as itself, and NaN as null
JsonNull == [null |-> TRUE]
JsonNumber(n) == IF n.nan THEN JsonNull ELSE n

\* A faulty 200 response: nextOffset repeats the offset.
MysqlSuccessNextOffsetIsOffset(rs, a) ==
  [statusCode |-> 200,
   body |-> [message |-> <<"Success">>, data |-> rs,
             pagination |-> [limit |-> JsonNumber(a.limit), offset |-> JsonNumber(a.offset),
                             nextOffset |-> JsonNumber(a.offset)]]]

\* the 200 response of the MySQL request handlers (body as JSON.parse reads it back)
MysqlSuccess(rs, a) ==
  [statusCode |-> 200,
   body |-> [message |-> <<"Success">>, data |-> rs,
             pagination |-> [limit |-> JsonNumber(a.limit), offset |-> JsonNumber(a.offset),
                             nextOffset |-> JsonNumber(Plus(a.offset, a.limit))]]]

\* A faulty finally block: connection.end() is not wrapped in try/catch, so its
\* rejection replaces the pending completion.
FinallyEndRethrows(c, endError) ==
  IF endError # NoError THEN Throw(endError) ELSE c

\* The inner try/catch of the request handlers' finally block: a rejection of
\* connection.end() is logged and the pending completion c stands.
FinallyEndCaught(c, endError) == c

\* A faulty finally block: the connection is closed only after a successful
\* query, and left open when the catch block produced the response.
RequestFinallySkipsEndOnError(c) ==
  IF connection' = "open" /\ c.value.statusCode = 200
  THEN /\ calls' = Append(calls, "end")
       /\ pc' = "awaitEnd"
       /\ completion' = c
       /\ UNCHANGED <<outcome, response>>
  ELSE /\ UNCHANGED calls
       /\ Deliver(c)

\* The request handlers' finally block is entered with completion c: with a
\* connection it issues connection.end(), without one the handler settles.
RequestFinally(c) ==
  IF connection' = "open"
  THEN /\ calls' = Append(calls, "end")
       /\ pc' = "awaitEnd"
       /\ completion' = c
       /\ UNCHANGED <<outcome, response>>
  ELSE /\ UNCHANGED calls
       /\ Deliver(c)

\* connection.end() settled in the finally block of a MySQL request handler
RequestAfterEnd(k) ==
  /\ pc = "awaitEnd" /\ kind = k
  /\ \E e \in CallOutcomes :
       /\ results' = Append(results, e)
       /\ Deliver(FinallyEndCaught(completion, e))
  /\ connection' = "ended"
  /\ UNCHANGED <<kind, env, event, context, queryParams, pool, client, stmt, connectArgs,
                 executeArgs, calls, schema, priorSuccess, rows, secretResponse, conc>>

(***************************************************************************)
(* lambda/handler.ts, first handler: MySQL, secrets client at module scope *)
(***************************************************************************)
\* the catch block
MysqlCatch(error) ==
  LET r == CASE error.message = <<"Database credentials not found">> ->
                  [statusCode |-> 403, message |-> error.message]
             [] error.message = <<"DB_HOST environment variable is not set">> ->
                  [statusCode |-> 500, message |-> <<"Server configuration error">>]
             [] OTHER ->
                  IF Includes(error.message, "ECONNREFUSED")
                  THEN [statusCode |-> 503, message |-> <<"Database connection failed">>]
                  ELSE [statusCode |-> 500, message |-> <<"Internal server error">>]
  IN [statusCode |-> r.statusCode,
      body |-> [message |-> r.message, errorType |-> error.name]]

\* queryParams: defaults overridden by the parameters that are not undefined
MysqlQueryParams(q) ==
  [limit |-> IF ~q.isNull /\ q.limit.def THEN q.limit.s ELSE <<"1", "0">>,
   offset |-> IF ~q.isNull /\ q.offset.def THEN q.offset.s ELSE <<"0">>]

\* entry: parse the query parameters, issue getSecretValue
MysqlHandler_Start ==
  /\ pc = "start" /\ kind = "mysql"
  /\ queryParams' = MysqlQueryParams(event.queryStringParameters)
  /\ calls' = Append(calls, "getSecretValue")
  /\ pc' = "awaitSecret"
  /\ UNCHANGED <<kind, env, event, context, connection, pool, client, stmt, connectArgs,
                 executeArgs, results, completion, outcome, response, schema, priorSuccess, rows, secretResponse, conc>>

\* getSecretValue settled: check the secret, then DB_HOST, issue createConnection
MysqlHandler_AfterSecret ==
  /\ pc = "awaitSecret" /\ kind = "mysql"
  /\ \E o \in SecretOutcomesFor(env.DB_SECRET_ARN) :
       LET e1 == SecretStepError(o, <<"Database credentials not found">>)
           e == IF e1 # NoError THEN e1
                ELSE IF Falsy(env.DB_HOST)
                     THEN Err("Error", <<"DB_HOST environment variable is not set">>)
                     ELSE NoError
       IN /\ results' = Append(results, o.error)
          /\ secretResponse' = o
          /\ connection' = connection
          /\ IF e # NoError
             THEN /\ RequestFinally(Return(MysqlCatch(e)))
                  /\ UNCHANGED connectArgs
             ELSE /\ connectArgs' = MysqlConnectOptions(o)
                  /\ calls' = Append(calls, "createConnection")
                  /\ pc' = "awaitConnect"
                  /\ UNCHANGED <<completion, outcome, response>>
  /\ UNCHANGED <<kind, env, event, context, queryParams, pool, client, stmt, executeArgs,
                 schema, priorSuccess, rows, conc>>

\* createConnection settled: normalize the pagination, issue the SELECT
MysqlHandler_AfterConnect ==
  /\ pc = "awaitConnect" /\ kind = "mysql"
  /\ \E e \in CallOutcomes :
       /\ results' = Append(results, e)
       /\ IF e # NoError
          THEN /\ connection' = connection
               /\ RequestFinally(Return(MysqlCatch(e)))
               /\ UNCHANGED executeArgs
          ELSE /\ connection' = "open"
               /\ executeArgs' = NormalizePagination(queryParams)
               /\ calls' = Append(calls, "execute")
               /\ pc' = "awaitExecute"
               /\ UNCHANGED <<completion, outcome, response>>
  /\ UNCHANGED <<kind, env, event, context, queryParams, pool, client, stmt, connectArgs,
                 schema, priorSuccess, rows, secretResponse, conc>>

\* connection.execute settled: build the response, enter the finally block
MysqlHandler_AfterExecute ==
  /\ pc = "awaitExecute" /\ kind = "mysql"
  /\ connection' = connection
  /\ \/ \E e \in Failures :
          /\ results' = Append(results, e)
          /\ RequestFinally(Return(MysqlCatch(e)))
          /\ UNCHANGED rows
     \/ \E r \in Rows :
          /\ results' = Append(results, NoError)
          /\ rows' = r
          /\ RequestFinally(Return(MysqlSuccess(r, executeArgs)))
  /\ UNCHANGED <<kind, env, event, context, queryParams, pool, client, stmt, connectArgs,
                 executeArgs, schema, priorSuccess, secretResponse, conc>>

MysqlHandler_AfterEnd == RequestAfterEnd("mysql")


(***************************************************************************)
(* lambda/handler.ts, third handler: MySQL, environment validated first    *)
(***************************************************************************)
\* the catch block (errorType is error.constructor.name)
EnvFirstCatch(error) ==
  LET known == { <<"Server configuration error">>, <<"Database connection failed">>,
                 <<"Database credentials not found">> }
      status == IF error.message = <<"Database connection failed">> THEN 503 ELSE 500
  IN [statusCode |-> status,
      body |-> [message |-> IF error.message \in known THEN error.message
                            ELSE <<"Internal server error">>,
                errorType |-> error.name]]

\* limit: event.queryStringParameters?.limit || '10', offset likewise with '0'
EnvFirstQueryParams(q) ==
  [limit |-> OrDefault(q.limit, <<"1", "0">>), offset |-> OrDefault(q.offset, <<"0">>)]

\* the .catch on createConnection: a refused connection is rethrown as
\* Error('Database connection failed'), any other error as it is
EnvFirstConnectError(e) ==
  IF Includes(e.message, "ECONNREFUSED")
  THEN Err("Error", <<"Database connection failed">>)
  ELSE e

\* A faulty entry: the context is left as the runtime passed it.
EnvFirstContextUntouched(ctx) == ctx

\* context.callbackWaitsForEmptyEventLoop = false
EnvFirstContext(ctx) == [ctx EXCEPT !.callbackWaitsForEmptyEventLoop = FALSE]

\* entry: clear callbackWaitsForEmptyEventLoop, check DB_HOST, parse the query
\* parameters, issue getSecretValue
EnvFirstHandler_Start ==
  /\ pc = "start" /\ kind = "mysqlEnvFirst"
  /\ context' = EnvFirstContext(context)
  /\ connection' = connection
  /\ IF Falsy(env.DB_HOST)
     THEN /\ RequestFinally(Return(EnvFirstCatch(Err("Error", <<"Server configuration error">>))))
          /\ UNCHANGED queryParams
     ELSE /\ queryParams' = EnvFirstQueryParams(event.queryStringParameters)
          /\ calls' = Append(calls, "getSecretValue")
          /\ pc' = "awaitSecret"
          /\ UNCHANGED <<completion, outcome, response>>
  /\ UNCHANGED <<kind, env, event, pool, client, stmt, connectArgs, executeArgs, results,
                 schema, priorSuccess, rows, secretResponse, conc>>

\* getSecretValue settled: check the secret, issue createConnection
EnvFirstHandler_AfterSecret ==
  /\ pc = "awaitSecret" /\ kind = "mysqlEnvFirst"
  /\ \E o \in SecretOutcomesFor(env.DB_SECRET_ARN) :
       LET e == SecretStepError(o, <<"Database credentials not found">>)
       IN /\ results' = Append(results, o.error)
          /\ secretResponse' = o
          /\ connection' = connection
          /\ IF e # NoError
             THEN /\ RequestFinally(Return(EnvFirstCatch(e)))
                  /\ UNCHANGED connectArgs
             ELSE /\ connectArgs' = MysqlConnectOptions(o)
                  /\ calls' = Append(calls, "createConnection")
                  /\ pc' = "awaitConnect"
                  /\ UNCHANGED <<completion, outcome, response>>
  /\ UNCHANGED <<kind, env, event, context, queryParams, pool, client, stmt, executeArgs,
                 schema, priorSuccess, rows, conc>>

\* createConnection settled: normalize the pagination, issue the SELECT
EnvFirstHandler_AfterConnect ==
  /\ pc = "awaitConnect" /\ kind = "mysqlEnvFirst"
  /\ \E e \in CallOutcomes :
       /\ results' = Append(results, e)
       /\ IF e # NoError
          THEN /\ connection' = connection
               /\ RequestFinally(Return(EnvFirstCatch(EnvFirstConnectError(e))))
               /\ UNCHANGED executeArgs
          ELSE /\ connection' = "open"
               /\ executeArgs' = NormalizePagination(queryParams)
               /\ calls' = Append(calls, "execute")
               /\ pc' = "awaitExecute"
               /\ UNCHANGED <<completion, outcome, response>>
  /\ UNCHANGED <<kind, env, event, context, queryParams, pool, client, stmt, connectArgs,
                 schema, priorSuccess, rows, secretResponse, conc>>

\* connection.execute settled: build the response, enter the finally block
EnvFirstHandler_AfterExecute ==
  /\ pc = "awaitExecute" /\ kind = "mysqlEnvFirst"
  /\ connection' = connection
  /\ \/ \E e \in Failures :
          /\ results' = Append(results, e)
          /\ RequestFinally(Return(EnvFirstCatch(e)))
          /\ UNCHANGED rows
     \/ \E r \in Rows :
          /\ results' = Append(results, NoError)
          /\ rows' = r
          /\ RequestFinally(Return(MysqlSuccess(r, executeArgs)))
  /\ UNCHANGED <<kind, env, event, context, queryParams, pool, client, stmt, connectArgs,
                 executeArgs, schema, priorSuccess, secretResponse, conc>>

EnvFirstHandler_AfterEnd == RequestAfterEnd("mysqlEnvFirst")

(***************************************************************************)
(* lambda/handler.ts, second handler: PostgreSQL, dispatch on httpMethod   *)
(***************************************************************************)
\* the catch block
PgCatch(error) ==
  [statusCode |-> 500,
   body |-> [message |-> <<"Internal server error">>, error |-> error.message]]

\* new Pool({...})
PgPoolOptions(o) ==
  [host |-> env.DB_HOST, port |-> ParseInt(OrDefault(env.DB_PORT, <<"5", "4", "3", "2">>)),
   user |-> o.username, password |-> o.password,
   database |-> IF env.DB_NAME.def THEN env.DB_NAME.s ELSE <<>>]

\* JSON.parse(event.body || '{}'): the parsed value, or "SyntaxError"
PgParseBody(b) ==
  LET text == OrDefault(b, <<"{}">>)
  IN CASE text = <<"{}">> -> "{}"
       [] text = <<"{\"test\":\"data\"}">> -> "{test:data}"
       [] OTHER -> "SyntaxError"

\* entry: issue getSecretValue
PgHandler_Start ==
  /\ pc = "start" /\ kind = "pg"
  /\ calls' = Append(calls, "getSecretValue")
  /\ pc' = "awaitSecret"
  /\ UNCHANGED <<kind, env, event, context, queryParams, connection, pool, client, stmt,
                 connectArgs, executeArgs, results, completion, outcome, response, schema,
                 priorSuccess, rows, secretResponse, conc>>

\* The switch on event.httpMethod, reached with the pool constructed:
\* GET issues pool.query, POST parses the body and issues pool.end, any other
\* method returns 405.
PgDispatch(method) ==
  CASE method = "GET" ->
         /\ calls' = calls \o <<"new Pool", "pool.query">>
         /\ pc' = "awaitQuery"
         /\ UNCHANGED <<completion, outcome, response>>
    [] method = "POST" ->
         IF PgParseBody(event.body) = "SyntaxError"
         THEN /\ calls' = Append(calls, "new Pool")
              /\ Deliver(Return(PgCatch(Err("SyntaxError", <<"Unexpected token in JSON">>))))
         ELSE /\ calls' = calls \o <<"new Pool", "pool.end">>
              /\ pc' = "awaitPoolEnd"
              /\ UNCHANGED <<completion, outcome, response>>
    [] OTHER ->
         /\ calls' = Append(calls, "new Pool")
         /\ Deliver(Return([statusCode |-> 405,
                            body |-> [message |-> <<"Method not allowed">>]]))

\* getSecretValue settled: check the secret, construct the pool, dispatch
PgHandler_AfterSecret ==
  /\ pc = "awaitSecret" /\ kind = "pg"
  /\ \E o \in SecretOutcomesFor(env.DB_SECRET_ARN) :
       LET e == SecretStepError(o, <<"Database credentials not found">>)
       IN /\ secretResponse' = o
          /\ IF e # NoError
             THEN /\ results' = Append(results, o.error)
                  /\ Deliver(Return(PgCatch(e)))
                  /\ UNCHANGED <<calls, pool, connectArgs>>
             ELSE /\ results' = results \o <<NoError, NoError>>
                  /\ pool' = "open"
                  /\ connectArgs' = PgPoolOptions(o)
                  /\ PgDispatch(event.httpMethod)
  /\ UNCHANGED <<kind, env, event, context, queryParams, connection, client, stmt,
                 executeArgs, schema, priorSuccess, rows, conc>>

\* pool.query('SELECT NOW()') settled: on success issue pool.end
PgHandler_AfterQuery ==
  /\ pc = "awaitQuery" /\ kind = "pg"
  /\ \E e \in CallOutcomes :
       /\ results' = Append(results, e)
       /\ IF e # NoError
          THEN /\ Deliver(Return(PgCatch(e)))
               /\ UNCHANGED calls
          ELSE /\ calls' = Append(calls, "pool.end")
               /\ pc' = "awaitPoolEnd"
               /\ UNCHANGED <<completion, outcome, response>>
  /\ UNCHANGED <<kind, env, event, context, queryParams, connection, pool, client, stmt,
                 connectArgs, executeArgs, schema, priorSuccess, rows, secretResponse, conc>>

\* the 200 response of the GET and POST branches
PgSuccess(method) ==
  IF method = "GET"
  THEN [statusCode |-> 200,
        body |-> [message |-> <<"Database connection successful">>, timestamp |-> "now"]]
  ELSE [statusCode |-> 200,
        body |-> [message |-> <<"POST request successful">>,
                  body |-> PgParseBody(event.body)]]

\* pool.end() settled in the GET or POST branch
PgHandler_AfterPoolEnd ==
  /\ pc = "awaitPoolEnd" /\ kind = "pg"
  /\ \E e \in CallOutcomes :
       /\ results' = Append(results, e)
       /\ pool' = "ended"
       /\ Deliver(Return(IF e # NoError THEN PgCatch(e) ELSE PgSuccess(event.httpMethod)))
  /\ UNCHANGED <<kind, env, event, context, queryParams, connection, client, stmt,
                 connectArgs, executeArgs, calls, schema, priorSuccess, rows, secretResponse, conc>>

NextRequest ==
  \/ InvokeRequest
  \/ Finish
  \/ MysqlHandler_Start
  \/ MysqlHandler_AfterSecret
  \/ MysqlHandler_AfterConnect
  \/ MysqlHandler_AfterExecute
  \/ MysqlHandler_AfterEnd
  \/ EnvFirstHandler_Start
  \/ EnvFirstHandler_AfterSecret
  \/ EnvFirstHandler_AfterConnect
  \/ EnvFirstHandler_AfterExecute
  \/ EnvFirstHandler_AfterEnd
  \/ PgHandler_Start
  \/ PgHandler_AfterSecret
  \/ PgHandler_AfterQuery
  \/ PgHandler_AfterPoolEnd

\* the request handlers alone
SpecRequest == Init /\ [][NextRequest]_vars


(***************************************************************************)
(* The class-based initializers: lib/db-init/index.ts (PostgreSQL) and its *)
(* MySQL twin.  getCredentials, validateEnvironment, createResponse and    *)
(* the handler are the same text in both.                                  *)
(***************************************************************************)
\* the config the handler constructs the DatabaseInitializer with
InitConfig(defaultPort, defaultDatabase) ==
  [host |-> OrDefault(env.DB_HOST, <<>>),
   port |-> ParseInt(OrDefault(env.DB_PORT, defaultPort)),
   database |-> OrDefault(env.DB_NAME, defaultDatabase)]

\* A faulty validateEnvironment: port 0 is let through.
ValidateEnvironmentAcceptsPortZero(config) ==
  CASE Falsy(env.DB_SECRET_ARN) ->
         Err("Error", <<"DB_SECRET_ARN environment variable is required">>)
    [] config.host = <<>> ->
         Err("Error", <<"Database host configuration is required">>)
    [] config.port.nan \/ config.port.val < 0 \/ config.port.val > 65535 ->
         Err("Error", <<"Invalid database port configuration">>)
    [] OTHER -> NoError

\* validateEnvironment: the error it throws, NoError when it passes
ValidateEnvironment(config) ==
  CASE Falsy(env.DB_SECRET_ARN) ->
         Err("Error", <<"DB_SECRET_ARN environment variable is required">>)
    [] config.host = <<>> ->
         Err("Error", <<"Database host configuration is required">>)
    [] config.port.nan \/ config.port.val = 0 \/ config.port.val < 0
         \/ config.port.val > 65535 ->
         Err("Error", <<"Invalid database port configuration">>)
    [] OTHER -> NoError

\* A faulty getCredentials: an empty username or password is returned as it is.
GetCredentialsErrorAcceptsEmpty(o) ==
  LET inner == CASE o.t = "throw" -> o.error
                 [] o.t = "nostring" ->
                      Err("Error", <<"Database credentials not found in secret">>)
                 [] o.t = "badjson" -> Err("SyntaxError", <<"Unexpected token in JSON">>)
                 [] OTHER -> NoError
  IN IF inner = NoError THEN NoError
     ELSE Err("Error", <<"Failed to retrieve database credentials: ">> \o inner.message)

\* getCredentials: the error it throws for the store's answer o, NoError when it
\* returns the parsed credentials
GetCredentialsError(o) ==
  LET inner == CASE o.t = "throw" -> o.error
                 [] o.t = "nostring" ->
                      Err("Error", <<"Database credentials not found in secret">>)
                 [] o.t = "badjson" -> Err("SyntaxError", <<"Unexpected token in JSON">>)
                 [] o.username = <<>> \/ o.password = <<>> ->
                      Err("Error", <<"Invalid secret format: missing required credentials">>)
                 [] OTHER -> NoError
  IN IF inner = NoError THEN NoError
     ELSE Err("Error", <<"Failed to retrieve database credentials: ">> \o inner.message)

\* A faulty createResponse: RequestId and StackId are filled from each other.
CreateResponseSwapsIds(ev, status, reason) ==
  [RequestId |-> ev.StackId,
   LogicalResourceId |-> ev.LogicalResourceId,
   PhysicalResourceId |-> "DBInitialization",
   StackId |-> ev.RequestId,
   Status |-> status,
   Reason |-> reason,
   NoEcho |-> FALSE]

\* createResponse
CreateResponse(ev, status, reason) ==
  [RequestId |-> ev.RequestId,
   LogicalResourceId |-> ev.LogicalResourceId,
   PhysicalResourceId |-> "DBInitialization",
   StackId |-> ev.StackId,
   Status |-> status,
   Reason |-> reason,
   NoEcho |-> FALSE]

\* the handler's catch block
InitFailed(error) ==
  CreateResponse(event, "FAILED", <<"Database initialization failed: ">> \o error.message)

\* the handler's return after initializeDatabase resolved
InitSucceeded ==
  CreateResponse(event, "SUCCESS", <<"Database initialization completed successfully">>)

\* The handler around `await initializer.initializeDatabase(...)`: c is how
\* initializeDatabase completed.
InitHandlerResult(c) ==
  IF c.type = "throw" THEN InitFailed(c.value) ELSE InitSucceeded

\* options of new Pool / createConnection in initializeDatabase
InitConnectOptions(config, o) ==
  [host |-> Str(config.host), port |-> config.port, user |-> o.username,
   password |-> o.password, database |-> config.database]

\* entry of the class-based handlers: build the config, validate the environment,
\* issue getSecretValue (inside getCredentials)
ClassInit_Start(k, defaultPort, defaultDatabase) ==
  /\ pc = "start" /\ kind = k
  /\ LET e == ValidateEnvironment(InitConfig(defaultPort, defaultDatabase))
     IN IF e # NoError
        THEN /\ Deliver(Return(InitFailed(e)))
             /\ UNCHANGED calls
        ELSE /\ calls' = Append(calls, "getSecretValue")
             /\ pc' = "awaitSecret"
             /\ UNCHANGED <<completion, outcome, response>>
  /\ UNCHANGED <<kind, env, event, context, queryParams, connection, pool, client, stmt,
                 connectArgs, executeArgs, results, schema, priorSuccess, rows, secretResponse, conc>>

(***************************************************************************)
(* The PostgreSQL database: what each statement of initializeDatabase does *)
(* to the schema.  One client.query text is one implicit transaction: it   *)
(* takes effect as a whole or not at all.                                  *)
(***************************************************************************)
Extensions == {"extension uuid-ossp", "extension pgcrypto"}
UserStatusType == {"type user_status"}
UsersTable == {"table users", "index idx_users_email", "index idx_users_status",
               "index idx_users_deleted_at", "function update_updated_at",
               "trigger users_updated_at"}
Policies == {"policy users_soft_delete", "policy users_active_only"}
RowSecurity == {"row level security on users"} \cup Policies
FullSchema == Extensions \cup UserStatusType \cup UsersTable \cup RowSecurity

\* number of client.query calls of initializeDatabase
PgStatements == 5

\* A faulty order of statements: the users table is created before the
\* user_status type.
PgStatementTableBeforeType(n, sch) ==
  CASE n = 1 -> [error |-> NoError, schema |-> sch]
    [] n = 2 -> [error |-> NoError, schema |-> sch \cup Extensions]
    [] n = 3 -> [error |-> NoError, schema |-> sch \cup UsersTable]
    [] n = 4 -> [error |-> NoError, schema |-> sch \cup UserStatusType]
    [] OTHER -> IF sch \cap Policies # {}
                THEN [error |-> Err("error", <<"policy already exists">>), schema |-> sch]
                ELSE [error |-> NoError, schema |-> sch \cup RowSecurity]

\* Statement n of initializeDatabase run on a database with schema sch: the error
\* PostgreSQL raises (NoError when none) and the schema afterwards.
PgStatement(n, sch) ==
  CASE n = 1 -> [error |-> NoError, schema |-> sch]
    [] n = 2 -> [error |-> NoError, schema |-> sch \cup Extensions]
    [] n = 3 -> [error |-> NoError, schema |-> sch \cup UserStatusType]
    [] n = 4 -> \* DROP TRIGGER IF EXISTS, then CREATE TRIGGER: the trigger exists after
                [error |-> NoError,
                 schema |-> ((sch \cup UsersTable) \ {"trigger users_updated_at"})
                              \cup {"trigger users_updated_at"}]
    [] OTHER -> \* CREATE POLICY has no IF NOT EXISTS: it fails on an existing policy
                IF sch \cap Policies # {}
                THEN [error |-> Err("error", <<"policy already exists">>), schema |-> sch]
                ELSE [error |-> NoError, schema |-> sch \cup RowSecurity]

(***************************************************************************)
(* lib/db-init/index.ts: the PostgreSQL initializer                        *)
(***************************************************************************)
\* The finally block of initializeDatabase once pool.end() settled: a rejection
\* of pool.end() replaces the completion c of the try/catch.
PgInitializeFinally(c, endError) ==
  IF endError # NoError THEN Throw(endError) ELSE c

\* A faulty finally block: the pool is ended without releasing the client.
PgFinallyCallsEndOnly(cl) == <<"pool.end">>

\* A faulty finally block: pool.end() is called a second time.
PgFinallyCallsEndTwice(cl) ==
  IF cl = "leased" THEN <<"client.release", "pool.end", "pool.end">>
  ELSE <<"pool.end", "pool.end">>

\* the calls the finally block makes for local client cl: client.release() if
\* there is a client, then pool.end()
PgFinallyCalls(cl) ==
  IF cl = "leased" THEN <<"client.release", "pool.end">> ELSE <<"pool.end">>

\* the finally block entered with completion c and local client cl, after a call
\* that ended lastResult: make the calls up to the awaited one
PgInitEnterFinally(c, cl, lastResult) ==
  LET fc == PgFinallyCalls(cl)
  IN /\ completion' = c
     /\ client' = IF Includes(fc, "client.release") THEN "released" ELSE cl
     /\ calls' = calls \o fc
     /\ results' = results \o <<lastResult>> \o [i \in 1..(Len(fc) - 1) |-> NoError]
     /\ pc' = "awaitPoolEnd"

DbInitPg_Start == ClassInit_Start("dbInitPg", <<"5", "4", "3", "2">>, <<"postgres">>)

\* getSecretValue settled: finish getCredentials, construct the pool, issue
\* pool.connect
DbInitPg_AfterSecret ==
  /\ pc = "awaitSecret" /\ kind = "dbInitPg"
  /\ \E o \in SecretOutcomesFor(env.DB_SECRET_ARN) :
       LET e == GetCredentialsError(o)
       IN /\ secretResponse' = o
          /\ IF e # NoError
             THEN /\ results' = Append(results, o.error)
                  /\ Deliver(Return(InitFailed(e)))
                  /\ UNCHANGED <<calls, pool, connectArgs>>
             ELSE /\ results' = results \o <<NoError, NoError>>
                  /\ calls' = calls \o <<"new Pool", "pool.connect">>
                  /\ pool' = "open"
                  /\ connectArgs' =
                       InitConnectOptions(InitConfig(<<"5", "4", "3", "2">>, <<"postgres">>), o)
                  /\ pc' = "awaitConnect"
                  /\ UNCHANGED <<completion, outcome, response>>
  /\ UNCHANGED <<kind, env, event, context, queryParams, connection, client, stmt,
                 executeArgs, schema, priorSuccess, rows, conc>>

\* pool.connect settled: issue the first statement, or leave through finally
DbInitPg_AfterConnect ==
  /\ pc = "awaitConnect" /\ kind = "dbInitPg"
  /\ \E e \in CallOutcomes :
       IF e # NoError
       THEN PgInitEnterFinally(Throw(e), "null", e)
       ELSE /\ client' = "leased"
            /\ calls' = Append(calls, "client.query")
            /\ results' = Append(results, NoError)
            /\ pc' = "awaitQuery"
            /\ UNCHANGED completion
  /\ UNCHANGED <<kind, env, event, context, queryParams, connection, pool, stmt,
                 connectArgs, executeArgs, outcome, response, schema, priorSuccess, rows, secretResponse, conc>>

\* client.query settled for statement stmt + 1: issue the next statement, or
\* leave through finally (releasing the client)
DbInitPg_AfterQuery ==
  /\ pc = "awaitQuery" /\ kind = "dbInitPg"
  /\ \E e \in {PgStatement(stmt + 1, schema).error} \cup Failures :
       IF e # NoError
       THEN /\ PgInitEnterFinally(Throw(e), client, e)
            /\ UNCHANGED <<stmt, schema>>
       ELSE /\ stmt' = stmt + 1
            /\ schema' = PgStatement(stmt + 1, schema).schema
            /\ IF stmt + 1 < PgStatements
               THEN /\ calls' = Append(calls, "client.query")
                    /\ results' = Append(results, NoError)
                    /\ pc' = "awaitQuery"
                    /\ UNCHANGED <<client, completion>>
               ELSE PgInitEnterFinally(Return("void"), client, NoError)
  /\ UNCHANGED <<kind, env, event, context, queryParams, connection, pool, connectArgs,
                 executeArgs, outcome, response, priorSuccess, rows, secretResponse, conc>>

\* pool.end() settled: initializeDatabase completes and the handler answers
DbInitPg_AfterPoolEnd ==
  /\ pc = "awaitPoolEnd" /\ kind = "dbInitPg"
  /\ \E e \in CallOutcomes :
       /\ results' = Append(results, e)
       /\ Deliver(Return(InitHandlerResult(PgInitializeFinally(completion, e))))
  /\ pool' = "ended"
  /\ UNCHANGED <<kind, env, event, context, queryParams, connection, client, stmt,
                 connectArgs, executeArgs, calls, schema, priorSuccess, rows, secretResponse, conc>>


(***************************************************************************)
(* The MySQL class-based initializer                                       *)
(***************************************************************************)
\* number of connection.execute calls of the MySQL initializeDatabase
MysqlStatements == 2

\* The finally block of the MySQL initializeDatabase once connection.end()
\* settled: a rejection of connection.end() replaces the completion c.
MysqlInitializeFinally(c, endError) ==
  IF endError # NoError THEN Throw(endError) ELSE c

DbInitMysql_Start == ClassInit_Start("dbInitMysql", <<"3", "3", "0", "6">>, <<"mydb">>)

\* getSecretValue settled: finish getCredentials, issue createConnection
DbInitMysql_AfterSecret ==
  /\ pc = "awaitSecret" /\ kind = "dbInitMysql"
  /\ \E o \in SecretOutcomesFor(env.DB_SECRET_ARN) :
       LET e == GetCredentialsError(o)
       IN /\ results' = Append(results, o.error)
          /\ secretResponse' = o
          /\ IF e # NoError
             THEN /\ Deliver(Return(InitFailed(e)))
                  /\ UNCHANGED <<calls, connectArgs>>
             ELSE /\ calls' = Append(calls, "createConnection")
                  /\ connectArgs' =
                       InitConnectOptions(InitConfig(<<"3", "3", "0", "6">>, <<"mydb">>), o)
                  /\ pc' = "awaitConnect"
                  /\ UNCHANGED <<completion, outcome, response>>
  /\ UNCHANGED <<kind, env, event, context, queryParams, connection, pool, client, stmt,
                 executeArgs, schema, priorSuccess, rows, conc>>

\* createConnection settled (outside the try): a rejection reaches the handler's
\* catch; otherwise issue the first statement
DbInitMysql_AfterConnect ==
  /\ pc = "awaitConnect" /\ kind = "dbInitMysql"
  /\ \E e \in CallOutcomes :
       /\ results' = Append(results, e)
       /\ IF e # NoError
          THEN /\ Deliver(Return(InitHandlerResult(Throw(e))))
               /\ UNCHANGED <<calls, connection>>
          ELSE /\ connection' = "open"
               /\ calls' = Append(calls, "execute")
               /\ pc' = "awaitQuery"
               /\ UNCHANGED <<completion, outcome, response>>
  /\ UNCHANGED <<kind, env, event, context, queryParams, pool, client, stmt, connectArgs,
                 executeArgs, schema, priorSuccess, rows, secretResponse, conc>>

\* connection.execute settled for statement stmt + 1: issue the next statement,
\* or enter the finally block and issue connection.end()
DbInitMysql_AfterQuery ==
  /\ pc = "awaitQuery" /\ kind = "dbInitMysql"
  /\ \E e \in CallOutcomes :
       /\ results' = Append(results, e)
       /\ IF e # NoError
          THEN /\ completion' = Throw(e)
               /\ calls' = Append(calls, "end")
               /\ pc' = "awaitEnd"
               /\ UNCHANGED stmt
          ELSE /\ stmt' = stmt + 1
               /\ IF stmt + 1 < MysqlStatements
                  THEN /\ calls' = Append(calls, "execute")
                       /\ pc' = "awaitQuery"
                       /\ UNCHANGED completion
                  ELSE /\ completion' = Return("void")
                       /\ calls' = Append(calls, "end")
                       /\ pc' = "awaitEnd"
  /\ UNCHANGED <<kind, env, event, context, queryParams, connection, pool, client,
                 connectArgs, executeArgs, outcome, response, schema, priorSuccess, rows, secretResponse, conc>>

\* connection.end() settled: initializeDatabase completes and the handler answers
DbInitMysql_AfterEnd ==
  /\ pc = "awaitEnd" /\ kind = "dbInitMysql"
  /\ \E e \in CallOutcomes :
       /\ results' = Append(results, e)
       /\ Deliver(Return(InitHandlerResult(MysqlInitializeFinally(completion, e))))
  /\ connection' = "ended"
  /\ UNCHANGED <<kind, env, event, context, queryParams, pool, client, stmt, connectArgs,
                 executeArgs, calls, schema, priorSuccess, rows, secretResponse, conc>>

(***************************************************************************)
(* The minimal MySQL initializer: one handler, one try/catch, no finally   *)
(***************************************************************************)
\* the response of the catch block
MinimalFailed(error) ==
  [RequestId |-> event.RequestId,
   LogicalResourceId |-> event.LogicalResourceId,
   PhysicalResourceId |-> "DBInitialization",
   StackId |-> event.StackId,
   Status |-> "FAILED",
   Reason |-> <<"Database initialization failed: ">> \o error.message,
   NoEcho |-> FALSE]

\* the response returned after connection.end()
MinimalSucceeded ==
  [RequestId |-> event.RequestId,
   LogicalResourceId |-> event.LogicalResourceId,
   PhysicalResourceId |-> "DBInitialization",
   StackId |-> event.StackId,
   Status |-> "SUCCESS",
   Reason |-> <<"Database initialization completed successfully">>,
   NoEcho |-> FALSE]

\* entry: issue getSecretValue
DbInitMinimal_Start ==
  /\ pc = "start" /\ kind = "dbInitMinimal"
  /\ calls' = Append(calls, "getSecretValue")
  /\ pc' = "awaitSecret"
  /\ UNCHANGED <<kind, env, event, context, queryParams, connection, pool, client, stmt,
                 connectArgs, executeArgs, results, completion, outcome, response, schema,
                 priorSuccess, rows, secretResponse, conc>>

\* getSecretValue settled: check the secret, issue createConnection
DbInitMinimal_AfterSecret ==
  /\ pc = "awaitSecret" /\ kind = "dbInitMinimal"
  /\ \E o \in SecretOutcomesFor(env.DB_SECRET_ARN) :
       LET e == SecretStepError(o, <<"Database credentials not found">>)
       IN /\ results' = Append(results, o.error)
          /\ secretResponse' = o
          /\ IF e # NoError
             THEN /\ Deliver(Return(MinimalFailed(e)))
                  /\ UNCHANGED <<calls, connectArgs>>
             ELSE /\ calls' = Append(calls, "createConnection")
                  /\ connectArgs' = MysqlConnectOptions(o)
                  /\ pc' = "awaitConnect"
                  /\ UNCHANGED <<completion, outcome, response>>
  /\ UNCHANGED <<kind, env, event, context, queryParams, connection, pool, client, stmt,
                 executeArgs, schema, priorSuccess, rows, conc>>

\* createConnection settled: issue CREATE TABLE
DbInitMinimal_AfterConnect ==
  /\ pc = "awaitConnect" /\ kind = "dbInitMinimal"
  /\ \E e \in CallOutcomes :
       /\ results' = Append(results, e)
       /\ IF e # NoError
          THEN /\ Deliver(Return(MinimalFailed(e)))
               /\ UNCHANGED <<calls, connection>>
          ELSE /\ connection' = "open"
               /\ calls' = Append(calls, "execute")
               /\ pc' = "awaitQuery"
               /\ UNCHANGED <<completion, outcome, response>>
  /\ UNCHANGED <<kind, env, event, context, queryParams, pool, client, stmt, connectArgs,
                 executeArgs, schema, priorSuccess, rows, secretResponse, conc>>

\* connection.execute settled: after CREATE TABLE a Create event issues the
\* INSERT; after the last statement connection.end() is issued; a failure goes
\* straight to the catch block
DbInitMinimal_AfterQuery ==
  /\ pc = "awaitQuery" /\ kind = "dbInitMinimal"
  /\ \E e \in CallOutcomes :
       /\ results' = Append(results, e)
       /\ IF e # NoError
          THEN /\ Deliver(Return(MinimalFailed(e)))
               /\ UNCHANGED <<calls, stmt>>
          ELSE /\ stmt' = stmt + 1
               /\ IF stmt = 0 /\ event.RequestType = "Create"
                  THEN /\ calls' = Append(calls, "execute")
                       /\ pc' = "awaitQuery"
                  ELSE /\ calls' = Append(calls, "end")
                       /\ pc' = "awaitEnd"
               /\ UNCHANGED <<completion, outcome, response>>
  /\ UNCHANGED <<kind, env, event, context, queryParams, connection, pool, client,
                 connectArgs, executeArgs, schema, priorSuccess, rows, secretResponse, conc>>

\* connection.end() settled inside the try
DbInitMinimal_AfterEnd ==
  /\ pc = "awaitEnd" /\ kind = "dbInitMinimal"
  /\ \E e \in CallOutcomes :
       /\ results' = Append(results, e)
       /\ Deliver(Return(IF e # NoError THEN MinimalFailed(e) ELSE MinimalSucceeded))
  /\ connection' = "ended"
  /\ UNCHANGED <<kind, env, event, context, queryParams, pool, client, stmt, connectArgs,
                 executeArgs, calls, schema, priorSuccess, rows, secretResponse, conc>>

NextInit ==
  \/ InvokeInit
  \/ Finish
  \/ DbInitPg_Start
  \/ DbInitPg_AfterSecret
  \/ DbInitPg_AfterConnect
  \/ DbInitPg_AfterQuery
  \/ DbInitPg_AfterPoolEnd
  \/ DbInitMysql_Start
  \/ DbInitMysql_AfterSecret
  \/ DbInitMysql_AfterConnect
  \/ DbInitMysql_AfterQuery
  \/ DbInitMysql_AfterEnd
  \/ DbInitMinimal_Start
  \/ DbInitMinimal_AfterSecret
  \/ DbInitMinimal_AfterConnect
  \/ DbInitMinimal_AfterQuery
  \/ DbInitMinimal_AfterEnd

\* the initializers alone
SpecInit == Init /\ [][NextInit]_vars

Next == NextRequest \/ NextInit

Spec == Init /\ [][Next]_vars


(***************************************************************************)
(* Vocabulary of the properties.                                           *)
(***************************************************************************)
Count(seq, x) == Cardinality({i \in 1..Len(seq) : seq[i] = x})
\* call op was issued and resolved / rejected
Resolved(op) == \E i \in 1..Len(results) : i <= Len(calls) /\ calls[i] = op /\ results[i] = NoError
Rejected(op) == \E i \in 1..Len(results) : i <= Len(calls) /\ calls[i] = op /\ results[i] # NoError
\* the error call op rejected with
ErrorOf(op) ==
  results[CHOOSE i \in 1..Len(results) : i <= Len(calls) /\ calls[i] = op /\ results[i] # NoError]
\* t occurs in s as a contiguous run
Contains(s, t) == \E i \in 0..(Len(s) - Len(t)) : SubSeq(s, i + 1, i + Len(t)) = t

Done == pc = "done"
MysqlKinds == {"mysql", "mysqlEnvFirst"}
ClassInitKinds == {"dbInitPg", "dbInitMysql"}
UnsupportedMethod == kind = "pg" /\ event.httpMethod \notin {"GET", "POST"}

(***************************************************************************)
(* Request handlers (SpecRequest)                                          *)
(***************************************************************************)
\* C1: in the PostgreSQL request handler a request whose method is neither GET
\* nor POST causes no getSecretValue call and no pool to be constructed or
\* queried, at any point up to the response.
C1_UnsupportedMethodTouchesNothing ==
  UnsupportedMethod =>
    /\ Count(calls, "getSecretValue") = 0
    /\ Count(calls, "new Pool") = 0
    /\ Count(calls, "pool.query") = 0

\* C2: in the PostgreSQL request handler every request whose method is neither
\* GET nor POST is answered with status 405, whatever the secret store does.
C2_UnsupportedMethodIs405 ==
  (Done /\ UnsupportedMethod) => (outcome = "returned" /\ response.statusCode = 405)

\* C3: in both MySQL request handlers connection.end is called exactly once,
\* and has settled when the result is delivered, if createConnection resolved
\* (whether the query succeeded or failed), and is never called if
\* createConnection was not reached or rejected.
C3_ConnectionEndedExactlyOnce ==
  kind \in MysqlKinds =>
    /\ Count(calls, "end") <= 1
    /\ ~Resolved("createConnection") => Count(calls, "end") = 0
    /\ (Done /\ Resolved("createConnection")) =>
         (Count(calls, "end") = 1 /\ Len(results) = Len(calls) /\ connection = "ended")

\* the query failed after a successful connect and the connection was closed
C3_Witness ==
  /\ Done /\ kind \in MysqlKinds
  /\ Resolved("createConnection") /\ Rejected("execute")
  /\ Count(calls, "end") = 1

\* C4: in the PostgreSQL request handler every pool constructed by an invocation
\* has been ended exactly once when the handler returns.
C4_PoolEndedExactlyOnce ==
  (Done /\ kind = "pg" /\ Count(calls, "new Pool") >= 1) => Count(calls, "pool.end") = 1

\* C8: the response of a MySQL request handler is the completion its
\* try/catch produced before connection.end() was called, whether end() then
\* resolves or rejects; the handler's promise resolves.
C8_EndFailureChangesNothing ==
  [][(pc = "awaitEnd" /\ kind \in MysqlKinds /\ pc' = "done") =>
       (outcome' = "returned" /\ response' = completion.value)]_vars

\* connection.end() rejected after a successful query and the 200 response stood
C8_Witness ==
  /\ Done /\ kind \in MysqlKinds
  /\ Rejected("end")
  /\ outcome = "returned" /\ response.statusCode = 200

(***************************************************************************)
(* Initializers (SpecInit)                                                 *)
(***************************************************************************)
\* C5: for every lifecycle event and every failure at any stage an initializer
\* handler resolves with one response that echoes the event's RequestId, StackId
\* and LogicalResourceId, with PhysicalResourceId 'DBInitialization' and NoEcho
\* false; no exception escapes.
C5_ResponseEchoesEvent ==
  (Done /\ kind \in InitKinds) =>
    /\ outcome = "returned"
    /\ response.RequestId = event.RequestId
    /\ response.StackId = event.StackId
    /\ response.LogicalResourceId = event.LogicalResourceId
    /\ response.PhysicalResourceId = "DBInitialization"
    /\ response.NoEcho = FALSE
    /\ response.Status \in {"SUCCESS", "FAILED"}

\* the release step failed and the response still echoes an event whose
\* identifiers differ from each other
C5_Witness ==
  /\ Done /\ kind \in InitKinds
  /\ Rejected("pool.end") \/ Rejected("end")
  /\ event.RequestId # event.StackId
  /\ response.RequestId = event.RequestId
  /\ response.StackId = event.StackId

\* the configuration the class-based handler of the running kind builds
ClassConfig ==
  IF kind = "dbInitPg" THEN InitConfig(<<"5", "4", "3", "2">>, <<"postgres">>)
  ELSE InitConfig(<<"3", "3", "0", "6">>, <<"mydb">>)

\* The error of the step that failed first in a finished run of a class-based
\* initializer, among environment validation, credential resolution, connection
\* and the statements; NoError when none of them failed.
FailedStepError ==
  CASE ValidateEnvironment(ClassConfig) # NoError -> ValidateEnvironment(ClassConfig)
    [] Rejected("getSecretValue") -> ErrorOf("getSecretValue")
    [] calls = <<"getSecretValue">> ->
         Err("Error", <<"Failed to retrieve database credentials: ">>)
    [] Rejected("pool.connect") -> ErrorOf("pool.connect")
    [] Rejected("createConnection") -> ErrorOf("createConnection")
    [] Rejected("client.query") -> ErrorOf("client.query")
    [] Rejected("execute") -> ErrorOf("execute")
    [] OTHER -> NoError

\* C6: whenever environment validation, credential resolution, connection or a
\* statement fails, the class-based handler returns FAILED with Reason
\* 'Database initialization failed: ' followed by a message containing the
\* failing step's own error message.
C6_FailedReasonCarriesStepError ==
  (Done /\ kind \in ClassInitKinds /\ FailedStepError # NoError) =>
    /\ outcome = "returned"
    /\ response.Status = "FAILED"
    /\ Head(response.Reason) = "Database initialization failed: "
    /\ Contains(Tail(response.Reason), FailedStepError.message)

ReleaseFailed == Rejected("pool.end") \/ (kind = "dbInitMysql" /\ Rejected("end"))
StatementFailed == Rejected("client.query") \/ (kind = "dbInitMysql" /\ Rejected("execute"))
AllStatementsSucceeded ==
  stmt = (IF kind = "dbInitPg" THEN PgStatements ELSE MysqlStatements)

\* C7: in the class-based initializers a failure of pool.end() / connection.end()
\* does not override the outcome of the statements: SUCCESS if every statement
\* succeeded, and otherwise a FAILED Reason carrying the statement's error.
C7_ReleaseFailureDoesNotOverride ==
  (Done /\ kind \in ClassInitKinds /\ ReleaseFailed) =>
    /\ AllStatementsSucceeded => response.Status = "SUCCESS"
    /\ StatementFailed =>
         (response.Status = "FAILED" /\ Contains(response.Reason, FailedStepError.message))

\* a run of the PostgreSQL initializer in which no collaborator call was rejected
\* by the environment and the credentials were good: whatever failed, failed
\* because of the statements themselves
FaultFreeRun ==
  /\ Resolved("pool.connect")
  /\ \A i \in 1..Len(results) : results[i] \notin Failures

\* C9: a run of the PostgreSQL initializer on a database on which an earlier run
\* returned SUCCESS returns SUCCESS again and leaves the schema objects as they
\* were.
C9_RerunSucceeds ==
  (Done /\ kind = "dbInitPg" /\ priorSuccess /\ FaultFreeRun) =>
    (response.Status = "SUCCESS" /\ schema = FullSchema)

\* release precedes end in the call log
ReleaseBeforeEnd ==
  \A i, j \in 1..Len(calls) :
    (calls[i] = "client.release" /\ calls[j] = "pool.end") => i < j

\* C10: the class-based initializers release the connection on every exit path.
\* PostgreSQL: once the pool is constructed, pool.end is called exactly once per
\* run, client.release exactly once if pool.connect succeeded and never
\* otherwise, and release precedes end.  MySQL: connection.end is called exactly
\* once whenever createConnection succeeded.
C10_InitializerAlwaysReleases ==
  /\ kind = "dbInitPg" =>
       /\ Count(calls, "pool.end") <= 1 /\ Count(calls, "client.release") <= 1
       /\ ReleaseBeforeEnd
       /\ Count(calls, "client.release") = 1 => Resolved("pool.connect")
       /\ (Done /\ Count(calls, "new Pool") = 1) =>
            /\ Count(calls, "pool.end") = 1
            /\ Count(calls, "client.release") = (IF Resolved("pool.connect") THEN 1 ELSE 0)
            /\ pool = "ended"
  /\ kind = "dbInitMysql" =>
       /\ Count(calls, "end") <= 1
       /\ (Done /\ Resolved("createConnection")) =>
            (Count(calls, "end") = 1 /\ connection = "ended")

\* a statement failed on the leased client; the client was released, then the
\* pool ended
C10_Witness ==
  /\ Done /\ kind = "dbInitPg"
  /\ Rejected("client.query")
  /\ calls[Len(calls) - 1] = "client.release" /\ calls[Len(calls)] = "pool.end"

\* C11: in the minimal MySQL initializer a connection opened by createConnection
\* has been closed (connection.end called) when the response is returned, on
\* every path, including a failing CREATE TABLE or sample-data INSERT.
C11_MinimalClosesConnection ==
  (Done /\ kind = "dbInitMinimal" /\ Resolved("createConnection")) =>
    Count(calls, "end") = 1

(***************************************************************************)
(* Pagination of the MySQL request handlers (SpecRequest)                  *)
(***************************************************************************)
\* s is an integer literal: an optional sign followed by digits only
IsIntegerString(s) ==
  LET j == IF Len(s) > 0 /\ s[1] \in {"-", "+"} THEN 2 ELSE 1
  IN j <= Len(s) /\ \A i \in j..Len(s) : IsDigit(s[i])

\* the query string carries parameter v as an integer
IsIntegerParam(v) == v.def /\ IsIntegerString(v.s)

RawLimit == event.queryStringParameters.limit
RawOffset == event.queryStringParameters.offset
\* the SELECT was issued, so its bound values are fixed
QueryIssued == kind \in MysqlKinds /\ Count(calls, "execute") = 1
\* the SELECT resolved: secret, connection and query all succeeded
QuerySucceeded == Done /\ kind \in MysqlKinds /\ Resolved("execute")

\* C12: in the MySQL request handlers every integer limit greater than 100 is
\* bound to the query and echoed in pagination as 100, every integer offset less
\* than 0 as 0, and the request is answered with status 200 when the query
\* succeeds.
C12_OutOfRangeIsClamped ==
  /\ (QueryIssued /\ IsIntegerParam(RawLimit) /\ ParseInt(RawLimit.s).val > 100) =>
       /\ executeArgs.limit = Num(100)
       /\ QuerySucceeded =>
            (response.statusCode = 200 /\ response.body.pagination.limit = Num(100))
  /\ (QueryIssued /\ IsIntegerParam(RawOffset) /\ ParseInt(RawOffset.s).val < 0) =>
       /\ executeArgs.offset = Num(0)
       /\ QuerySucceeded =>
            (response.statusCode = 200 /\ response.body.pagination.offset = Num(0))

\* limit=1000 and offset=-5 were answered 200 with limit 100 and offset 0
C12_Witness ==
  /\ QuerySucceeded
  /\ RawLimit = Str(<<"1", "0", "0", "0">>) /\ RawOffset = Str(<<"-", "5">>)
  /\ response.statusCode = 200
  /\ response.body.pagination.limit = Num(100)
  /\ response.body.pagination.offset = Num(0)

\* C13: in the MySQL request handlers, for every pair of integer query parameters
\* (limit, offset) the values bound to the query satisfy 0 <= limit <= 100 and
\* offset >= 0; a limit less than 0 is bound as 0.
C13_BoundValuesInRange ==
  (QueryIssued /\ IsIntegerParam(RawLimit) /\ IsIntegerParam(RawOffset)) =>
    /\ 0 <= executeArgs.limit.val /\ executeArgs.limit.val <= 100
    /\ executeArgs.offset.val >= 0

\* C14: in the MySQL request handlers, when every stage succeeds the response is
\* 200 with message 'Success', the rows the query returned, and a pagination
\* object that echoes the values bound to the SELECT (as JSON writes them) with
\* nextOffset = offset + limit; an absent limit is bound as 10 and an absent
\* offset as 0.
C14_SuccessEchoesBoundPagination ==
  /\ QuerySucceeded =>
       /\ outcome = "returned"
       /\ response.statusCode = 200
       /\ response.body.message = <<"Success">>
       /\ response.body.data = rows
       /\ response.body.pagination.limit = JsonNumber(executeArgs.limit)
       /\ response.body.pagination.offset = JsonNumber(executeArgs.offset)
       /\ IF executeArgs.limit.nan \/ executeArgs.offset.nan
          THEN response.body.pagination.nextOffset = JsonNull
          ELSE response.body.pagination.nextOffset =
                 Num(executeArgs.offset.val + executeArgs.limit.val)
  /\ QueryIssued =>
       /\ ~RawLimit.def => executeArgs.limit = Num(10)
       /\ ~RawOffset.def => executeArgs.offset = Num(0)

\* no query string at all: two rows came back with pagination 10 / 0 / 10
C14_Witness ==
  /\ QuerySucceeded
  /\ event.queryStringParameters.isNull
  /\ rows = <<"alice", "bob">>
  /\ response.body.data = <<"alice", "bob">>
  /\ response.body.pagination = [limit |-> Num(10), offset |-> Num(0), nextOffset |-> Num(10)]

(***************************************************************************)
(* Responses of the request handlers (SpecRequest)                         *)
(***************************************************************************)
\* the PostgreSQL handler parsed the secret: it went on to construct the pool
PgCredentialsResolved == kind = "pg" /\ Count(calls, "new Pool") = 1

\* C15: in the PostgreSQL request handler a POST whose credentials were resolved
\* returns 200 with body {message: 'POST request successful', body: B}, B being
\* the value parsed from the request body ({} for a null, absent or empty
\* body), and issues no query.
C15_PostEchoesBody ==
  (Done /\ PgCredentialsResolved /\ event.httpMethod = "POST") =>
    /\ outcome = "returned"
    /\ response.statusCode = 200
    /\ response.body = [message |-> <<"POST request successful">>,
                        body |-> PgParseBody(event.body)]
    /\ Falsy(event.body) => response.body.body = "{}"
    /\ Count(calls, "pool.query") = 0

\* C16: in the MySQL request handlers a createConnection failure whose message
\* contains 'ECONNREFUSED' is answered 503 'Database connection failed', and
\* every other createConnection failure is answered 500.
C16_ConnectFailureStatus ==
  (Done /\ kind \in MysqlKinds /\ Rejected("createConnection")) =>
    IF Includes(ErrorOf("createConnection").message, "ECONNREFUSED")
    THEN /\ response.statusCode = 503
         /\ response.body.message = <<"Database connection failed">>
    ELSE response.statusCode = 500

\* C17: in both MySQL request handlers a failure of connection.execute after a
\* successful connect is answered 500 'Internal server error', whatever the
\* error's message.
C17_QueryFailureIs500 ==
  (Done /\ kind \in MysqlKinds /\ Resolved("createConnection") /\ Rejected("execute")) =>
    /\ response.statusCode = 500
    /\ response.body.message = <<"Internal server error">>

\* C18: in every request handler, when getSecretValue throws, whatever the
\* message, the status is 500 (or 403 in the MySQL handler with the module-level
\* client), and neither a connection nor a pool is opened.
C18_SecretFailureStatus ==
  (Done /\ kind \in RequestKinds /\ Rejected("getSecretValue")) =>
    /\ response.statusCode \in (IF kind = "mysql" THEN {500, 403} ELSE {500})
    /\ Count(calls, "createConnection") = 0
    /\ Count(calls, "new Pool") = 0

\* the messages the catch blocks write themselves
SafeMessages ==
  { <<"Internal server error">>, <<"Server configuration error">>,
    <<"Database connection failed">>, <<"Database credentials not found">>,
    <<"Method not allowed">> }

\* C19: in each of the three request handlers the body of every failure response
\* has nothing but a message drawn from a fixed set and an error-kind label: no
\* field carries the message text of the exception that was thrown.
C19_FailureBodyHasNoExceptionText ==
  (Done /\ kind \in RequestKinds /\ outcome = "returned" /\ response.statusCode # 200) =>
    /\ DOMAIN response.body \subseteq {"message", "errorType"}
    /\ response.body.message \in SafeMessages

\* C20: in both MySQL request handlers every invocation with DB_HOST unset is
\* answered 500 {message: 'Server configuration error', errorType: 'Error'},
\* whatever the secret store returns or throws, without calling createConnection.
C20_MissingHostIsConfigurationError ==
  (Done /\ kind \in MysqlKinds /\ Falsy(env.DB_HOST)) =>
    /\ response = [statusCode |-> 500,
                   body |-> [message |-> <<"Server configuration error">>,
                             errorType |-> "Error"]]
    /\ Count(calls, "createConnection") = 0

(***************************************************************************)
(* Configuration and credentials                                           *)
(***************************************************************************)
\* p is an integer in 1..65535
ValidPort(p) == ~p.nan /\ 1 <= p.val /\ p.val <= 65535

\* the port a request handler connects to
RequestPort ==
  ParseInt(OrDefault(env.DB_PORT,
                     IF kind = "pg" THEN <<"5", "4", "3", "2">> ELSE <<"3", "3", "0", "6">>))

RequestConfigInvalid == Falsy(env.DB_HOST) \/ ~ValidPort(RequestPort)

\* C21: in the request handlers an invalid connection configuration (DB_HOST
\* unset or empty, or DB_PORT not an integer in 1..65535) fails the invocation
\* before any network call: no getSecretValue, no createConnection, no pool and
\* no pool query.
C21_InvalidConfigMakesNoCall ==
  (kind \in RequestKinds /\ RequestConfigInvalid) =>
    /\ Count(calls, "getSecretValue") = 0
    /\ Count(calls, "createConnection") = 0
    /\ Count(calls, "new Pool") = 0
    /\ Count(calls, "pool.query") = 0

InitConfigInvalid ==
  Falsy(env.DB_SECRET_ARN) \/ ClassConfig.host = <<>> \/ ~ValidPort(ClassConfig.port)

\* C22: in the class-based initializers, when DB_SECRET_ARN is unset, the host is
\* empty or the port is not a number in 1..65535, the handler returns FAILED
\* without any secret-store call or database connection; for a non-empty host
\* and a port in 1..65535 validation passes and the secret is fetched.
C22_InvalidEnvironmentFailsEarly ==
  kind \in ClassInitKinds =>
    /\ InitConfigInvalid =>
         /\ calls = <<>>
         /\ pc \in {"start", "done"}
         /\ Done => (outcome = "returned" /\ response.Status = "FAILED")
    /\ (~InitConfigInvalid /\ pc # "start") => Count(calls, "getSecretValue") = 1

\* DB_PORT=0 with host and secret ARN set: FAILED with no call made
C22_Witness ==
  /\ Done /\ kind \in ClassInitKinds
  /\ env.DB_PORT = Str(<<"0">>) /\ ~Falsy(env.DB_HOST) /\ ~Falsy(env.DB_SECRET_ARN)
  /\ response.Status = "FAILED"
  /\ response.Reason = <<"Database initialization failed: ",
                         "Invalid database port configuration">>
  /\ calls = <<>>

\* the store answered with a SecretString that parses with a non-empty username
\* and a non-empty password
GoodSecret ==
  secretResponse.t = "creds" /\ secretResponse.username # <<>>
    /\ secretResponse.password # <<>>

\* the message of what went wrong with the store's answer
SecretCause ==
  CASE secretResponse.t = "throw" -> secretResponse.error.message
    [] secretResponse.t = "nostring" -> <<"Database credentials not found in secret">>
    [] secretResponse.t = "badjson" -> <<"Unexpected token in JSON">>
    [] OTHER -> <<"Invalid secret format: missing required credentials">>

\* C23: getCredentials returns the parsed credentials if and only if the store
\* returned a SecretString that parses as JSON with non-empty username and
\* password; in every other case it throws 'Failed to retrieve database
\* credentials: ' followed by the cause's message, after exactly one
\* getSecretValue call.
C23_GetCredentials ==
  (kind \in ClassInitKinds /\ secretResponse.t # "none") =>
    /\ Count(calls, "getSecretValue") = 1
    /\ IF GoodSecret
       THEN /\ Len(calls) >= 2
            /\ connectArgs.user = secretResponse.username
            /\ connectArgs.password = secretResponse.password
       ELSE /\ Done /\ outcome = "returned"
            /\ calls = <<"getSecretValue">>
            /\ response.Status = "FAILED"
            /\ response.Reason =
                 <<"Database initialization failed: ",
                   "Failed to retrieve database credentials: ">> \o SecretCause

\* the secret parsed but its username is empty: getCredentials threw
C23_Witness ==
  /\ Done /\ kind \in ClassInitKinds
  /\ secretResponse.t = "creds" /\ secretResponse.username = <<>>
  /\ secretResponse.password # <<>>
  /\ response.Reason = <<"Database initialization failed: ",
                         "Failed to retrieve database credentials: ",
                         "Invalid secret format: missing required credentials">>

\* C24: in the request handlers a connection or pool is never opened with
\* credentials whose username or password is missing or empty.
C24_NoConnectWithoutCredentials ==
  (kind \in RequestKinds
     /\ (Count(calls, "createConnection") >= 1 \/ Count(calls, "new Pool") >= 1)) =>
    /\ secretResponse.username # <<>> /\ secretResponse.password # <<>>
    /\ connectArgs.user # <<>> /\ connectArgs.password # <<>>

(***************************************************************************)
(* Termination of the request handlers                                     *)
(***************************************************************************)
\* a step of a running request handler: the call it awaits has settled
RequestStep ==
  \/ MysqlHandler_Start \/ MysqlHandler_AfterSecret \/ MysqlHandler_AfterConnect
  \/ MysqlHandler_AfterExecute \/ MysqlHandler_AfterEnd
  \/ EnvFirstHandler_Start \/ EnvFirstHandler_AfterSecret \/ EnvFirstHandler_AfterConnect
  \/ EnvFirstHandler_AfterExecute \/ EnvFirstHandler_AfterEnd
  \/ PgHandler_Start \/ PgHandler_AfterSecret \/ PgHandler_AfterQuery
  \/ PgHandler_AfterPoolEnd

\* The request handlers with collaborators that answer: every awaited call
\* settles, one way or the other, and the handler then runs on.
SpecRequestLive == SpecRequest /\ WF_vars(RequestStep)

StatusCodes == {200, 403, 405, 500, 503}

\* C25: every invocation of a request handler terminates by returning exactly
\* one response whose statusCode is one of 200, 403, 405, 500, 503, whatever the
\* secret store, connect, query and close do; no exception escapes.
C25_RequestAlwaysAnswers ==
  /\ [](( Done /\ kind \in RequestKinds) =>
          (outcome = "returned" /\ response.statusCode \in StatusCodes))
  /\ [][(Done /\ kind \in RequestKinds) => pc' = "idle"]_vars
  /\ (pc = "start" /\ kind \in RequestKinds) ~> Done

\* the query and then connection.end() both failed, and a response was returned
C25_Witness ==
  /\ Done /\ kind \in MysqlKinds
  /\ Rejected("execute") /\ Rejected("end")
  /\ outcome = "returned" /\ response.statusCode \in StatusCodes

\* C26: after every invocation of the env-validated-first MySQL request handler,
\* on success and on every failure path (DB_HOST unset included),
\* context.callbackWaitsForEmptyEventLoop is false.
C26_EventLoopFlagCleared ==
  (kind = "mysqlEnvFirst" /\ pc # "start") => context.callbackWaitsForEmptyEventLoop = FALSE

\* DB_HOST unset: the configuration error was returned and the flag is false
C26_Witness ==
  /\ Done /\ kind = "mysqlEnvFirst" /\ Falsy(env.DB_HOST)
  /\ response.body.message = <<"Server configuration error">>
  /\ context.callbackWaitsForEmptyEventLoop = FALSE

(***************************************************************************)
(* Order of the external calls (Spec)                                      *)
(***************************************************************************)
QueryCalls == {"execute", "client.query"}
CloseCalls == {"end", "client.release", "pool.end"}
\* number of different queries / statements the running handler has
MaxQueries ==
  IF kind \in MysqlKinds THEN 1
  ELSE IF kind = "dbInitPg" THEN PgStatements ELSE MysqlStatements

\* C27: in the MySQL request handlers and the class-based initializers each
\* external call is issued at most once, with no retry after a failure, one at a
\* time and in order: the connection is opened only after the secret fetch
\* succeeded, a query only after the connection open (and every earlier query)
\* succeeded, and the close only after the last query finished or failed.
C27_CallsOnceAndInOrder ==
  kind \in (MysqlKinds \cup ClassInitKinds) =>
    /\ \A op \in {"getSecretValue", "createConnection", "new Pool", "pool.connect"}
                   \cup CloseCalls : Count(calls, op) <= 1
    /\ Count(calls, "execute") + Count(calls, "client.query") <= MaxQueries
    /\ Len(calls) - Len(results) \in {0, 1}
    /\ \A i \in 1..Len(calls) :
         /\ calls[i] = "getSecretValue" => i = 1
         /\ calls[i] \in {"createConnection", "new Pool"} =>
              (i = 2 /\ calls[1] = "getSecretValue" /\ results[1] = NoError)
         /\ calls[i] = "pool.connect" => (i = 3 /\ calls[2] = "new Pool")
         /\ calls[i] \in QueryCalls =>
              /\ i > 1
              /\ calls[i - 1] \in {"createConnection", "pool.connect"} \cup QueryCalls
              /\ results[i - 1] = NoError
         /\ calls[i] \in CloseCalls =>
              /\ \E j \in 1..(i - 1) : calls[j] \in {"createConnection", "new Pool"}
              /\ \A j \in (i + 1)..Len(calls) : calls[j] \in CloseCalls
         /\ \A j \in 1..(i - 1) :
              (j <= Len(results) /\ results[j] # NoError) => calls[i] \in CloseCalls

\* createConnection was rejected and nothing was tried again
C27_Witness ==
  /\ Done /\ kind \in MysqlKinds
  /\ Rejected("createConnection")
  /\ calls = <<"getSecretValue", "createConnection">>

(***************************************************************************)
(* Statements of the PostgreSQL initializer (SpecInit)                     *)
(***************************************************************************)
\* The schema objects exist in the order the statements create them:
\* extensions, then the user_status type, then the users table with its indexes
\* and trigger, then row-level security.
SchemaInOrder ==
  /\ schema \cap UserStatusType # {} => Extensions \subseteq schema
  /\ schema \cap UsersTable # {} => (UsersTable \cup UserStatusType) \subseteq schema
  /\ schema \cap RowSecurity # {} => (RowSecurity \cup UsersTable) \subseteq schema

CredentialsNotFound == Err("Error", <<"Database credentials not found">>)

\* C29: when the secret store answers without a SecretString both MySQL request
\* handlers return the message 'Database credentials not found', open no
\* connection, and answer with the same status code as each other.
C29_NoSecretStringSameStatus ==
  (Done /\ kind \in MysqlKinds /\ secretResponse.t = "nostring") =>
    /\ response.body.message = <<"Database credentials not found">>
    /\ Count(calls, "createConnection") = 0
    /\ response.statusCode = MysqlCatch(CredentialsNotFound).statusCode
    /\ response.statusCode = EnvFirstCatch(CredentialsNotFound).statusCode

(***************************************************************************)
(* Two invocations of one MySQL request handler interleaved in one process.*)
(* Each invocation has its own frame (event and locals); process.env and   *)
(* the module-level secrets client are shared and never written.  conc     *)
(* holds the frames, the `connection` variables and the connection objects *)
(* createConnection has returned.                                          *)
(***************************************************************************)
ConcIds == {1, 2}

\* the events the two invocations are called with
ConcQueryStrings ==
  { NullQuery,
    [isNull |-> FALSE, limit |-> Str(<<"1", "0", "0", "0">>), offset |-> Str(<<"-", "5">>)] }

NoExecuteResult == [error |-> NoError, rows |-> <<>>]

\* the frame of an invocation at entry
NewFrame(q) ==
  [pc |-> "start", event |-> [BlankEvent EXCEPT !.queryStringParameters = q],
   queryParams |-> NoQueryParams, executeArgs |-> NoExecuteArgs,
   secret |-> NoSecretResponse, connectResult |-> NoError,
   executeResult |-> NoExecuteResult, completion |-> NoCompletion,
   response |-> NoResponse]

\* A faulty scope: `connection` is declared at module scope, one variable for
\* every invocation.
ConnectionSlotShared(i) == 1

\* `let connection` is declared inside the handler: each invocation has its own
ConnectionSlot(i) == i

InitConcurrent ==
  /\ kind \in MysqlKinds
  /\ pc = "concurrent"
  /\ env \in [DB_HOST : Hosts, DB_PORT : {Undefined}, DB_SECRET_ARN : Arns,
              DB_NAME : {Undefined}]
  /\ event = BlankEvent
  /\ context = [callbackWaitsForEmptyEventLoop |-> TRUE]
  /\ queryParams = NoQueryParams
  /\ connection = "undefined"
  /\ pool = "none"
  /\ client = "null"
  /\ stmt = 0
  /\ connectArgs = NoConnectArgs
  /\ executeArgs = NoExecuteArgs
  /\ calls = <<>>
  /\ results = <<>>
  /\ completion = NoCompletion
  /\ outcome = "none"
  /\ response = NoResponse
  /\ schema = {}
  /\ priorSuccess = FALSE
  /\ rows = <<>>
  /\ secretResponse = NoSecretResponse
  /\ conc \in { [inv |-> <<NewFrame(q1), NewFrame(q2)>>, connection |-> <<0, 0>>,
                 conns |-> <<>>] : q1 \in ConcQueryStrings, q2 \in ConcQueryStrings }

\* everything but conc
ConcUnchanged ==
  UNCHANGED <<kind, pc, env, event, context, queryParams, connection, pool, client, stmt,
              connectArgs, executeArgs, calls, results, completion, outcome, response,
              schema, priorSuccess, rows, secretResponse>>

\* the catch block of the handler that is running
ConcCatch(e) == IF kind = "mysql" THEN MysqlCatch(e) ELSE EnvFirstCatch(e)

\* Invocation i, with frame f, enters its finally block with completion c:
\* `if (connection)` reads the variable as it is now (cv), and end() is called
\* on the object it holds.
ConcFinally(i, f, c, cv, cs) ==
  LET cid == cv[ConnectionSlot(i)]
  IN IF cid # 0
     THEN conc' = [inv |-> [conc.inv EXCEPT ![i] = [f EXCEPT !.pc = "awaitEnd",
                                                             !.completion = c]],
                   connection |-> cv,
                   conns |-> [cs EXCEPT ![cid].endedBy = Append(@, i)]]
     ELSE conc' = [inv |-> [conc.inv EXCEPT ![i] = [f EXCEPT !.pc = "done",
                                                             !.response = c.value]],
                   connection |-> cv,
                   conns |-> cs]

\* entry of invocation i
ConcStart(i) ==
  /\ pc = "concurrent" /\ conc.inv[i].pc = "start"
  /\ LET f == conc.inv[i]
         q == f.event.queryStringParameters
     IN IF kind = "mysqlEnvFirst" /\ Falsy(env.DB_HOST)
        THEN ConcFinally(i, f,
                         Return(EnvFirstCatch(Err("Error", <<"Server configuration error">>))),
                         conc.connection, conc.conns)
        ELSE conc' = [conc EXCEPT !.inv[i] =
                        [f EXCEPT !.pc = "awaitSecret",
                                  !.queryParams = IF kind = "mysql" THEN MysqlQueryParams(q)
                                                  ELSE EnvFirstQueryParams(q)]]
  /\ ConcUnchanged

\* getSecretValue of invocation i settled
ConcAfterSecret(i) ==
  /\ pc = "concurrent" /\ conc.inv[i].pc = "awaitSecret"
  /\ \E o \in SecretOutcomesFor(env.DB_SECRET_ARN) :
       LET f == [conc.inv[i] EXCEPT !.secret = o]
           e1 == SecretStepError(o, <<"Database credentials not found">>)
           e == IF e1 # NoError THEN e1
                ELSE IF kind = "mysql" /\ Falsy(env.DB_HOST)
                     THEN Err("Error", <<"DB_HOST environment variable is not set">>)
                     ELSE NoError
       IN IF e # NoError
          THEN ConcFinally(i, f, Return(ConcCatch(e)), conc.connection, conc.conns)
          ELSE conc' = [conc EXCEPT !.inv[i] = [f EXCEPT !.pc = "awaitConnect"]]
  /\ ConcUnchanged

\* createConnection of invocation i settled: the new connection object is
\* assigned to `connection` and the SELECT is executed on what `connection` holds
ConcAfterConnect(i) ==
  /\ pc = "concurrent" /\ conc.inv[i].pc = "awaitConnect"
  /\ \E e \in CallOutcomes :
       LET f == [conc.inv[i] EXCEPT !.connectResult = e]
       IN IF e # NoError
          THEN ConcFinally(i, f,
                           Return(ConcCatch(IF kind = "mysql" THEN e
                                            ELSE EnvFirstConnectError(e))),
                           conc.connection, conc.conns)
          ELSE LET new == Len(conc.conns) + 1
                   cv == [conc.connection EXCEPT ![ConnectionSlot(i)] = new]
                   cs == Append(conc.conns,
                                [openedBy |-> i, queriedBy |-> <<>>, endedBy |-> <<>>])
               IN conc' = [inv |-> [conc.inv EXCEPT ![i] =
                                      [f EXCEPT !.pc = "awaitExecute",
                                                !.executeArgs =
                                                   NormalizePagination(f.queryParams)]],
                           connection |-> cv,
                           conns |-> [cs EXCEPT ![cv[ConnectionSlot(i)]].queriedBy =
                                                   Append(@, i)]]
  /\ ConcUnchanged

\* connection.execute of invocation i settled
ConcAfterExecute(i) ==
  /\ pc = "concurrent" /\ conc.inv[i].pc = "awaitExecute"
  /\ \E x \in [error : Failures, rows : {<<>>}] \cup [error : {NoError}, rows : Rows] :
       LET f == [conc.inv[i] EXCEPT !.executeResult = x]
           c == IF x.error # NoError THEN Return(ConcCatch(x.error))
                ELSE Return(MysqlSuccess(x.rows, f.executeArgs))
       IN ConcFinally(i, f, c, conc.connection, conc.conns)
  /\ ConcUnchanged

\* connection.end() of invocation i settled
ConcAfterEnd(i) ==
  /\ pc = "concurrent" /\ conc.inv[i].pc = "awaitEnd"
  /\ \E e \in CallOutcomes :
       LET f == conc.inv[i]
       IN conc' = [conc EXCEPT !.inv[i] =
                     [f EXCEPT !.pc = "done",
                               !.response = FinallyEndCaught(f.completion, e).value,
                               !.completion = NoCompletion]]
  /\ ConcUnchanged

NextConcurrent ==
  \E i \in ConcIds :
    \/ ConcStart(i)
    \/ ConcAfterSecret(i)
    \/ ConcAfterConnect(i)
    \/ ConcAfterExecute(i)
    \/ ConcAfterEnd(i)

\* two interleaved invocations of a MySQL request handler
SpecConcurrent == InitConcurrent /\ [][NextConcurrent]_vars

\* What a MySQL request handler answers when it runs alone on event ev and its
\* calls settle as o (getSecretValue), ce (createConnection), x (execute).
SoloResponse(ev, o, ce, x) ==
  LET q == ev.queryStringParameters
      e1 == SecretStepError(o, <<"Database credentials not found">>)
  IN IF kind = "mysql"
     THEN IF e1 # NoError THEN MysqlCatch(e1)
          ELSE IF Falsy(env.DB_HOST)
          THEN MysqlCatch(Err("Error", <<"DB_HOST environment variable is not set">>))
          ELSE IF ce # NoError THEN MysqlCatch(ce)
          ELSE IF x.error # NoError THEN MysqlCatch(x.error)
          ELSE MysqlSuccess(x.rows, NormalizePagination(MysqlQueryParams(q)))
     ELSE IF Falsy(env.DB_HOST)
          THEN EnvFirstCatch(Err("Error", <<"Server configuration error">>))
          ELSE IF e1 # NoError THEN EnvFirstCatch(e1)
          ELSE IF ce # NoError THEN EnvFirstCatch(EnvFirstConnectError(ce))
          ELSE IF x.error # NoError THEN EnvFirstCatch(x.error)
          ELSE MysqlSuccess(x.rows, NormalizePagination(EnvFirstQueryParams(q)))

\* SoloResponse is what the handler run alone delivers
SoloResponseIsSequential ==
  (Done /\ kind \in MysqlKinds) =>
    response = SoloResponse(event, secretResponse,
                            IF Len(results) >= 2 THEN results[2] ELSE NoError,
                            [error |-> IF Len(results) >= 3 THEN results[3] ELSE NoError,
                             rows |-> rows])

\* an invocation calls only what it opened
OwnConnectionOnly(cn) ==
  /\ \A k \in 1..Len(cn.queriedBy) : cn.queriedBy[k] = cn.openedBy
  /\ \A k \in 1..Len(cn.endedBy) : cn.endedBy[k] = cn.openedBy

\* C30: when two invocations of a MySQL request handler are interleaved at their
\* await points, each connection is queried and ended only by the invocation
\* that opened it, it is ended at most once and exactly once when its opener
\* has returned, and each invocation returns what it would return alone.
C30_InterleavedInvocationsIsolated ==
  pc = "concurrent" =>
    /\ \A cid \in 1..Len(conc.conns) :
         LET cn == conc.conns[cid]
         IN /\ OwnConnectionOnly(cn)
            /\ Len(cn.queriedBy) = 1
            /\ Len(cn.endedBy) <= 1
            /\ conc.inv[cn.openedBy].pc = "done" => Len(cn.endedBy) = 1
    /\ \A i \in ConcIds :
         LET f == conc.inv[i]
         IN f.pc = "done" =>
              f.response = SoloResponse(f.event, f.secret, f.connectResult, f.executeResult)

\* both invocations have returned, each opened a connection, the second
\* connected first and returned a different answer
C30_Witness ==
  /\ pc = "concurrent"
  /\ \A i \in ConcIds : conc.inv[i].pc = "done"
  /\ Len(conc.conns) = 2
  /\ conc.conns[1].openedBy = 2
  /\ conc.conns[2].openedBy = 1
  /\ conc.inv[1].response.statusCode = 200
  /\ conc.inv[2].response.statusCode = 200
  /\ conc.inv[1].response # conc.inv[2].response

====
